---- MODULE Spec2Model ----
(***************************************************************************)
(* Dataset partitioning and batching of the street-view / satellite        *)
(* pipeline: tools/datasets_satellite_into_sview.py (class Dataset and its *)
(* four subclasses) and the calls the training driver makes into it.       *)
(*                                                                         *)
(* Sample ids are 0 .. NumSamples-1 as in the code.  A partition is a      *)
(* Python list of sample ids, modelled as a sequence; cursors are 0-based  *)
(* offsets into it.  A returned batch is identified by the ids of its      *)
(* rows, in the order get_data_part fetches them.                          *)
(*                                                                         *)
(* The module `partitioning` that the code imports is not among the        *)
(* source files; its functions are modelled from their description in the  *)
(* specification (section 4.1) and are marked as such.                     *)
(***************************************************************************)
EXTENDS Integers, Sequences, FiniteSets, TLC

\* ------------------------------------------------------------------ bounds
NumSamples == 4        \* N, the size of the sample population
MaxBatch == 2          \* batch sizes are 1 .. MaxBatch (balanced: up to twice that)
Den == 4               \* fractions are n/Den
MaxFolds == 2          \* part_kn ranges over 2 .. MaxFolds
MaxMae == 2            \* a validation MAE is one of 0 .. MaxMae
num_epochs == 5        \* --num_epochs of the training script

RawLabels == {1, 2}        \* values of the label column of the CSV
GroupKeys == {1, 2}        \* values of the constraint column of the CSV
NumDraws == 3          \* the permutations a random draw is taken from
Seeds == {1}               \* seeds a caller passes
NoSeed == -1               \* seed=None

Ids == 0 .. (NumSamples - 1)
BatchSizes == 1 .. MaxBatch
BalancedSizes == MaxBatch .. (2 * MaxBatch)
None == << >>              \* self.clabels = None

\* ----------------------------------------------------------- Python helpers
Range(s) == {s[i] : i \in DOMAIN s}

Min2(a, b) == IF a <= b THEN a ELSE b

\* s[a:b] for 0 <= a <= b
PySlice(s, a, b) == SubSeq(s, a + 1, Min2(b, Len(s)))

\* sorted(rows)
Sorted(rows) == SortSeq(rows, LAMBDA x, y : x < y)

\* np.int(np.ceil(n / d)) for n >= 0, d >= 1 (true division)
CeilDiv(n, d) == (n + d - 1) \div d

\* round(a / b) for a >= 0, b > 0: to nearest, halves to even
RoundDiv(a, b) ==
    LET q == a \div b
        r == a % b
    IN  IF 2 * r < b THEN q
        ELSE IF 2 * r > b THEN q + 1
        ELSE IF q % 2 = 0 THEN q ELSE q + 1

RECURSIVE Flatten(_)
Flatten(ss) == IF ss = << >> THEN << >> ELSE Head(ss) \o Flatten(Tail(ss))

\* how often x occurs in the sequence s
Occurrences(s, x) == Cardinality({i \in DOMAIN s : s[i] = x})

\* the sequences s and t hold the same elements, each as often
SameElements(s, t) ==
    /\ Len(s) = Len(t)
    /\ \A x \in Range(s) \cup Range(t) : Occurrences(s, x) = Occurrences(t, x)

\* the elements of a sequence in order of first occurrence
RECURSIVE Uniq(_)
Uniq(s) ==
    IF s = << >> THEN << >>
    ELSE LET h == Head(s)
         IN  <<h>> \o Uniq(SelectSeq(Tail(s), LAMBDA x : x # h))

\* Permutations of the sample ids, as sequences: the k-th is a rotation of
\* 0 .. N-1, read backwards when k is odd.
Draw(k) ==
    [i \in 1 .. NumSamples |->
        LET j == IF k % 2 = 0 THEN i ELSE NumSamples + 1 - i
        IN  (j - 1 + (k \div 2)) % NumSamples]

\* the permutations an unseeded random draw can give
Perms == {Draw(k) : k \in 0 .. (NumDraws - 1)}

\* the permutation a random generator seeded with `seed` draws
SeedPerm(seed) == Draw(seed)

\* the permutations a random draw under `seed` can give
Draws(seed) == IF seed = NoSeed THEN Perms ELSE {SeedPerm(seed)}

\* ------------------------------------------------------- module-level code
map_labels(raw) == [i \in DOMAIN raw |-> raw[i] - 1]

\* np.unique(self.labels): the distinct labels, ascending
label_types_of(labs) ==
    LET present == {labs[i] : i \in DOMAIN labs}
        lo == CHOOSE c \in present : \A d \in present : c <= d
        hi == CHOOSE c \in present : \A d \in present : d <= c
    IN  SelectSeq([k \in 1 .. (hi - lo + 1) |-> lo + k - 1], LAMBDA c : c \in present)

\* ------------------------------------------- partitioning (from the spec)
\* The ids of `part` in the order the random permutation `perm` puts them.
Shuffled(part, perm) == SelectSeq(perm, LAMBDA i : i \in Range(part))

\* Every group key carries one label only.
GroupsUniform(labs, groups) ==
    \A i, j \in DOMAIN groups : groups[i] = groups[j] => labs[i] = labs[j]

\* The group keys of the members m, in order of first occurrence.
GroupOrder(m, groups) == Uniq([j \in 1 .. Len(m) |-> groups[m[j]]])

\* Whole groups taken in order while their cumulative size fits the budget.
RECURSIVE TakeGroups(_, _, _, _)
TakeGroups(keys, m, groups, budget) ==
    IF keys = << >> THEN {}
    ELSE LET c == Cardinality({j \in DOMAIN m : groups[m[j]] = Head(keys)})
         IN  IF c <= budget
             THEN {Head(keys)} \cup TakeGroups(Tail(keys), m, groups, budget - c)
             ELSE {}

\* One class: the first k members (or the leading whole groups of at most k
\* members in all) against the rest.
ClassSplit(m, k, groups) ==
    IF groups = None
    THEN [a |-> SubSeq(m, 1, k), b |-> SubSeq(m, k + 1, Len(m))]
    ELSE LET taken == TakeGroups(GroupOrder(m, groups), m, groups, k)
         IN  [a |-> SelectSeq(m, LAMBDA i : groups[i] \in taken),
              b |-> SelectSeq(m, LAMBDA i : groups[i] \notin taken)]

\* One class, with round(num/den * count) of its members as the target.
ClassSplitFraction(m, num, den, groups) ==
    ClassSplit(m, RoundDiv(num * Len(m), den), groups)

JoinSplits(split) ==
    [a |-> Flatten([k \in 1 .. Len(split) |-> split[k].a]),
     b |-> Flatten([k \in 1 .. Len(split) |-> split[k].b])]

SplitShuffled(sh, types, labs, num, den, groups) ==
    JoinSplits([k \in 1 .. Len(types) |->
                  ClassSplitFraction(SelectSeq(sh, LAMBDA i : labs[i] = types[k]),
                                     num, den, groups)])

\* Stratified two-way split of the ids in `part`: of every class,
\* round(num/den * count) members go to a, the others to b.
StratSplit(part, labs, num, den, perm, groups) ==
    SplitShuffled(Shuffled(part, perm), label_types_of(labs), labs, num, den, groups)

AllIds == [i \in 1 .. NumSamples |-> i - 1]

TrainTest(s) == [train |-> s.a, test |-> s.b]

partition_stratified(labs, train_size, perm, groups) ==
    TrainTest(StratSplit(AllIds, labs, train_size, Den, perm, groups))

TrainValidationTest(train, s2) == [train |-> train, validation |-> s2.a, test |-> s2.b]

SplitRest(s1, labs, train_size, valid_size, perm, groups) ==
    TrainValidationTest(s1.a, StratSplit(s1.b, labs, valid_size, Den - train_size, perm, groups))

\* two chained two-way splits: train against the rest, then the rest into
\* validation and test
partition_stratified_validation(labs, train_size, valid_size, perm, groups) ==
    SplitRest(StratSplit(AllIds, labs, train_size, Den, perm, groups),
              labs, train_size, valid_size, perm, groups)

\* the position of x in the sequence s
PosOf(s, x) == CHOOSE j \in DOMAIN s : s[j] = x

GroupFold(m, order, groups, k, f) ==
    SelectSeq(m, LAMBDA i : (PosOf(order, groups[i]) - 1) % k = f)

\* the members m of one class that fold f gets: every k-th member, or every
\* k-th group
ClassFold(m, groups, k, f) ==
    IF groups = None
    THEN SelectSeq(m, LAMBDA i : (PosOf(m, i) - 1) % k = f)
    ELSE GroupFold(m, GroupOrder(m, groups), groups, k, f)

KFold(k, types, labs, perm, groups) ==
    [f \in 1 .. k |->
        Flatten([n \in 1 .. Len(types) |->
                   ClassFold(SelectSeq(perm, LAMBDA i : labs[i] = types[n]),
                             groups, k, f - 1)])]

\* folds 0 .. k-1: the members (or groups) of every class dealt round-robin
partition_stratified_kfold(k, labs, perm, groups) ==
    KFold(k, label_types_of(labs), labs, perm, groups)

\* test = fold part_kp, train = the other folds
get_partition_stratified_kfold(part_kp, kparts) ==
    [train |-> Flatten([j \in 1 .. Len(kparts) - 1 |->
                           kparts[IF j <= part_kp THEN j ELSE j + 1]]),
     test |-> kparts[part_kp + 1]]

\* a = the stratified subset kept, b = the remainder
decimate_partition_stratified(part, labs, psize, perm, groups) ==
    StratSplit(part, labs, psize, Den, perm, groups)

partition_by_class(labs, held_out, perm) ==
    [train |-> SelectSeq(perm, LAMBDA i : labs[i] # held_out),
     test |-> SelectSeq(perm, LAMBDA i : labs[i] = held_out)]

\* ------------------------------------------------------------ pickle files
\* A list of ids as a stream: its length, then its items.
pickle_dump_list(l) == <<Len(l)>> \o l

\* a load that loses the first item of the list
pickle_load_listTail(b) == SubSeq(b, 3, 1 + b[1])

pickle_load_list(b) == SubSeq(b, 2, 1 + b[1])

\* A list of lists: the number of lists, then every list's stream.
pickle_dump_lists(ls) == <<Len(ls)>> \o Flatten([j \in 1 .. Len(ls) |-> pickle_dump_list(ls[j])])

RECURSIVE ParseLists(_, _)
ParseLists(b, n) ==
    IF n = 0 THEN << >>
    ELSE <<pickle_load_list(b)>> \o ParseLists(SubSeq(b, 2 + b[1], Len(b)), n - 1)

pickle_load_lists(b) == ParseLists(Tail(b), b[1])

\* ------------------------------------------------------------------ state
VARIABLES
    variant,            \* the class of the instance: "CV", "TVT", "TT", "TT_byclass"
    labels,             \* self.labels
    clabels,            \* self.clabels (None without clabel_name)
    label_test,         \* self.label_test (Dataset_TT_byclass)
    train_part,         \* self.train_part
    validation_part,    \* self.validation_part
    test_part,          \* self.test_part
    batch_ind,          \* self.batch_ind
    batch_ind_valid,    \* self.batch_ind_valid
    batch_ind_test,     \* self.batch_ind_test
    kpartitions,        \* self.kpartitions (Dataset_CrossValidation)
    files,              \* the partition files: suffix of part_file -> stream
    last,               \* history: the operation performed last and its result
    gen,                \* history: the last generate-mode pick_label, its files standing
    run,                \* history: the calls of one getter since its cursor was 0
    sweep,              \* history: the rows one getter returned since its cursor was 0
    picked,             \* history: pick_label has completed on this instance
    pc,                 \* the training script: where its run is
    script_batch_size,  \* the training script: its batch_size (line 93)
    epoch,              \* the training script: epochs completed
    step,               \* the training script: training batches drawn in this epoch
    mae_error_list,     \* the training script: the validation MAE values recorded
    loss_min,           \* the training script: the lowest validation error so far
    checkpoint          \* history: the last decision on writing the model file

vars == <<variant, labels, clabels, label_test, train_part, validation_part,
          test_part, batch_ind, batch_ind_valid, batch_ind_test, kpartitions,
          files, last, gen, run, sweep, picked, pc, script_batch_size, epoch,
          step, mae_error_list, loss_min, checkpoint>>

population == <<variant, labels, clabels, label_test>>
parts == <<train_part, validation_part, test_part>>
cursors == <<batch_ind, batch_ind_valid, batch_ind_test>>
training == <<script_batch_size, epoch, step, mae_error_list, loss_min, checkpoint>>
driver == <<pc, training>>

Variants == {"CV", "TVT", "TT", "TT_byclass"}
TwoWay == {"TT", "TT_byclass"}

\* self.label_types, self.num_labels
label_types == label_types_of(labels)
num_labels == Len(label_types)

\* the arguments of a pick_label call (those a variant lacks stay 0)
NoArgs == [part_gen |-> 0, part_kn |-> 0, part_kp |-> 0, vsize |-> 0,
           train_size |-> 0, valid_size |-> 0, psize |-> Den, seed |-> NoSeed]

NoRun == [getter |-> "none", batch_size |-> 0, calls |-> 0, rows |-> << >>]
NoSweep == [getter |-> "none", rows |-> << >>]
NoGen == [valid |-> FALSE, args |-> NoArgs, repeat |-> FALSE, train |-> << >>,
          validation |-> << >>, test |-> << >>]

\* the record of a call: l is the label matrix returned with the rows, preds
\* the column of predictions a writer was given
Op(name, ok, args, bs, at, ret) ==
    [op |-> name, ok |-> ok, args |-> args, batch_size |-> bs, at |-> at, ret |-> ret,
     l |-> << >>, preds |-> << >>, raised |-> "none"]

\* Dataset.__init__ (lines 37-86) on a label column and a constraint column
Dataset_init_state(v, raw, cl, lt) ==
    /\ variant = v
    /\ labels = map_labels(raw)
    /\ clabels = cl
    /\ label_test = lt
    /\ batch_ind = 0
    /\ batch_ind_test = 0
    /\ batch_ind_valid = 0
    /\ train_part = << >>
    /\ test_part = << >>
    /\ validation_part = << >>
    /\ kpartitions = << >>
    /\ last = Op("__init__", TRUE, NoArgs, 0, 0, << >>)
    /\ gen = NoGen
    /\ run = NoRun
    /\ sweep = NoSweep
    /\ picked = FALSE

\* The label columns and constraint columns an instance is built on: the
\* samples are numbered so that the column ascends (the draws reorder them).
Ascending(col) == \A i \in Ids : i > 0 => col[i - 1] <= col[i]
LabelColumns == {raw \in [Ids -> RawLabels] : Ascending(raw)}
ConstraintColumns ==
    {None} \cup {cl \in [Ids -> GroupKeys] : Ascending(cl) /\ cl[0] = 1 /\ cl[NumSamples - 1] = 2}

\* label columns for the runs that also draw batches: two classes present
BatchLabelColumns ==
    {raw \in LabelColumns : raw[0] = 1 /\ raw[NumSamples - 1] = 2}

\* no run of the training script
NoCheckpoint == [written |-> FALSE, before |-> 0, latest |-> 0, window |-> << >>]
NoScript ==
    /\ pc = "none"
    /\ script_batch_size = 0
    /\ epoch = 0
    /\ step = 0
    /\ mae_error_list = << >>
    /\ loss_min = 0
    /\ checkpoint = NoCheckpoint

Init ==
    /\ NoScript
    /\ files = << >>
    /\ \E v \in Variants, raw \in BatchLabelColumns :
          Dataset_init_state(v, raw, None, 1)

InitPartition ==
    /\ NoScript
    /\ files = << >>
    /\ \E v \in Variants, raw \in LabelColumns, cl \in ConstraintColumns :
          \E lt \in (IF v = "TT_byclass" THEN {0, 1} ELSE {1}) :
              Dataset_init_state(v, raw, cl, lt)

\* ------------------------------------------------------------- pick_label
\* What a successful call assigns and writes, per class of the instance.
\* a: the arguments; p1: the draw of the partitioning call; p2: the draw of
\* decimate_partition_stratified.

\* lines 297-300, 355-358, 423-426
TrainAfterPsize(psize, train0, p2) ==
    IF psize < Den
    THEN decimate_partition_stratified(train0, labels, psize, p2, None).a
    ELSE train0

\* lines 243-246
CV_assign(vsize, kp, sel, dec) ==
    [kpartitions |-> kp,
     test_part |-> sel.test,
     train_part |-> IF vsize > 0 THEN dec.a ELSE sel.train,
     validation_part |-> IF vsize > 0 THEN dec.b ELSE validation_part]

\* lines 238-244
CV_select(a, p2, kp, sel) ==
    CV_assign(a.vsize, kp, sel,
              decimate_partition_stratified(sel.train, labels, Den - a.vsize, p2, clabels))

\* lines 211-233: the folds as computed (and written) or as read
CV_folds(a, p1) ==
    IF a.part_gen = 1
    THEN partition_stratified_kfold(a.part_kn, labels, p1, clabels)
    ELSE pickle_load_lists(files[""])

CV_pick(a, p2, kp) ==
    [files |-> IF a.part_gen = 1 THEN ("" :> pickle_dump_lists(kp)) @@ files ELSE files]
    @@ CV_select(a, p2, kp, get_partition_stratified_kfold(a.part_kp, kp))

\* lines 206-246
Dataset_CrossValidation_pick(a, p1, p2) == CV_pick(a, p2, CV_folds(a, p1))

\* lines 267-286: the partitions as computed (and written) or as read
TVT_source(a, p1) ==
    IF a.part_gen = 1
    THEN partition_stratified_validation(labels, a.train_size, a.valid_size, p1, clabels)
    ELSE [train |-> pickle_load_list(files["_train"]),
          validation |-> pickle_load_list(files["_validation"]),
          test |-> pickle_load_list(files["_test"])]

TVT_pick(a, p2, src) ==
    [kpartitions |-> kpartitions,
     files |-> IF a.part_gen = 1
               THEN ("_train" :> pickle_dump_list(src.train)) @@
                    ("_validation" :> pickle_dump_list(src.validation)) @@
                    ("_test" :> pickle_dump_list(src.test)) @@ files
               ELSE files,
     test_part |-> src.test,
     train_part |-> TrainAfterPsize(a.psize, src.train, p2),
     validation_part |-> src.validation]

\* lines 262-300
Dataset_TVT_pick(a, p1, p2) == TVT_pick(a, p2, TVT_source(a, p1))

\* the pair partition_stratified returns unpacked the other way round
Dataset_TT_generateSwapped(train_size, p1) ==
    [train |-> partition_stratified(labels, train_size, p1, clabels).test,
     test |-> partition_stratified(labels, train_size, p1, clabels).train]

\* lines 333-336
Dataset_TT_generate(train_size, p1) ==
    partition_stratified(labels, train_size, p1, clabels)

\* lines 401-403
Dataset_TT_byclass_generate(p1) ==
    partition_by_class(labels, label_test, p1)

\* lines 328-344, 396-412: the partitions as computed (and written) or as read
TT_source(a, p1) ==
    IF a.part_gen # 1
    THEN [train |-> pickle_load_list(files["_train"]),
          test |-> pickle_load_list(files["_test"])]
    ELSE IF variant = "TT" THEN Dataset_TT_generate(a.train_size, p1)
    ELSE Dataset_TT_byclass_generate(p1)

TT_pick(a, p2, src) ==
    [kpartitions |-> kpartitions,
     files |-> IF a.part_gen = 1
               THEN ("_train" :> pickle_dump_list(src.train)) @@
                    ("_test" :> pickle_dump_list(src.test)) @@ files
               ELSE files,
     test_part |-> src.test,
     train_part |-> TrainAfterPsize(a.psize, src.train, p2),
     validation_part |-> validation_part]

\* lines 322-358 (Dataset_TT) and 389-426 (Dataset_TT_byclass)
Dataset_TT_pick(a, p1, p2) == TT_pick(a, p2, TT_source(a, p1))

\* the argument values calls are made with
TrainSizes == 1 .. (Den - 1)
PSizes == {Den \div 2, Den}
VSizes == {0, Den \div 2}
AllSeeds == Seeds \cup {NoSeed}

\* what a load-mode call reads of its arguments: part_kn, train_size,
\* valid_size and seed are used in the part_gen == 1 branch only
LoadView(a) == [a EXCEPT !.part_gen = 0, !.part_kn = 0, !.train_size = 0,
                         !.valid_size = 0, !.seed = NoSeed]

GenerateArgs(v) ==
    IF v = "CV"
    THEN {[NoArgs EXCEPT !.part_gen = 1, !.part_kn = kn, !.part_kp = kp,
                         !.vsize = vs, !.seed = sd] :
            kn \in 2 .. MaxFolds, kp \in 0 .. (MaxFolds - 1),
            vs \in VSizes, sd \in AllSeeds}
    ELSE IF v = "TVT"
    THEN {[NoArgs EXCEPT !.part_gen = 1, !.train_size = ts, !.valid_size = 1,
                         !.psize = ps, !.seed = sd] :
            ts \in 1 .. (Den - 2), ps \in PSizes, sd \in AllSeeds}
    ELSE {[NoArgs EXCEPT !.part_gen = 1, !.train_size = ts, !.psize = ps, !.seed = sd] :
            ts \in TrainSizes, ps \in PSizes, sd \in AllSeeds}

ArgsOf(v) == GenerateArgs(v) \cup {LoadView(a) : a \in GenerateArgs(v)}

\* the calls of the training driver (ordinal_classification_10class.py, lines
\* 136-147): no seed; vsize = --validation_part, psize = --train_size (here its
\* default, 1.0)
DriverGenerateArgs(v) ==
    {a \in GenerateArgs(v) :
        /\ a.seed = NoSeed
        /\ v = "CV" => a.vsize > 0
        /\ v # "CV" => a.psize = Den
        /\ v \in {"TVT", "TT_byclass"} => a.train_size = Den \div 2
        /\ v = "TT" => a.train_size >= Den \div 2}

DriverArgs(v) == DriverGenerateArgs(v) \cup {LoadView(a) : a \in DriverGenerateArgs(v)}

\* the files a load-mode call of the class reads
FilesRead(v) ==
    IF v = "CV" THEN {""}
    ELSE IF v = "TVT" THEN {"_train", "_validation", "_test"}
    ELSE {"_train", "_test"}

\* pickle.load reads the file: it is there and was written whole (a dump
\* that failed after open(part_file, 'wb') leaves it empty)
Readable(sfx) == sfx \in DOMAIN files /\ files[sfx] # << >>

\* partitioning: a fraction has to lie in (0, 1)
ValidFraction(n) == 0 < n /\ n < Den

\* the call draws in decimate_partition_stratified
Decimates(a) == IF variant = "CV" THEN a.vsize > 0 ELSE a.psize < Den

\* the fraction moved into (0, 1) when it is outside
DecimateFractionClamped(a) ==
    IF variant = "CV"
    THEN (IF a.vsize >= Den THEN 1 ELSE Den - a.vsize)
    ELSE (IF a.psize <= 0 THEN 1 ELSE a.psize)

\* lines 244, 298, 356, 424: psize=1.0-vsize, psize=psize
DecimateFraction(a) == IF variant = "CV" THEN Den - a.vsize ELSE a.psize

\* the files a generate-mode call writes, in the order it writes them
FilesWritten(v) ==
    IF v = "CV" THEN <<"">>
    ELSE IF v = "TVT" THEN <<"_train", "_validation", "_test">>
    ELSE <<"_train", "_test">>

\* the files a load-mode call reads before it assigns any attribute
FirstReads(v) ==
    IF v = "CV" THEN {""}
    ELSE IF v = "TVT" THEN {"_train", "_validation"}
    ELSE {"_train", "_test"}

\* a write of a partition file that fails: `at` is the position of the file
\* among those the call writes (0: every write succeeds), `opened` says that
\* open(part_file, 'wb') succeeded and pickle.dump failed
NoFault == [at |-> 0, opened |-> FALSE]
WriteFaults(v) == {[at |-> k, opened |-> o] : k \in 1 .. Len(FilesWritten(v)), o \in BOOLEAN}

\* the folds the call selects from
Folds(a) == IF a.part_gen = 1 THEN a.part_kn ELSE files[""][1]

\* the partitioning call of generate mode rejects its arguments, or a file
\* read before any assignment is unreadable
RaisesAtSource(a) ==
    IF a.part_gen = 1
    THEN \/ variant # "TT_byclass" /\ clabels # None /\ ~GroupsUniform(labels, clabels)
         \/ variant \in {"TVT", "TT"} /\ ~ValidFraction(a.train_size)
         \/ variant = "TVT" /\ ~ValidFraction(a.valid_size)
    ELSE \E sfx \in FirstReads(variant) : ~Readable(sfx)

\* where the call raises ("none": it runs to its end), in the order of the
\* statements: the partitioning call or the first reads, the read of _test
\* (line 286), a write, get_partition_stratified_kfold (line 238),
\* decimate_partition_stratified
RaisePoint(a, fault) ==
    IF RaisesAtSource(a) THEN "source"
    ELSE IF a.part_gen # 1 /\ variant = "TVT" /\ ~Readable("_test") THEN "read"
    ELSE IF a.part_gen = 1 /\ fault.at > 0 THEN "write"
    ELSE IF variant = "CV" /\ a.part_kp \notin 0 .. (Folds(a) - 1) THEN "select"
    ELSE IF /\ Decimates(a)
            /\ \/ ~ValidFraction(DecimateFraction(a))
               \/ variant = "CV" /\ clabels # None /\ ~GroupsUniform(labels, clabels)
    THEN "decimate"
    ELSE "none"

\* the call runs to its end: the files are readable in load mode, the fold
\* index is one of the folds, and the partitioning calls accept their arguments
Completes(a) == RaisePoint(a, NoFault) = "none"

\* the files after the writes of a call, up to the write that fails
RECURSIVE Written(_, _, _)
Written(names, streams, k) ==
    IF k = 0 THEN files
    ELSE (names[k] :> streams[k]) @@ Written(names, streams, k - 1)

FilesAfter(names, streams, fault) ==
    IF fault.at = 0 THEN Written(names, streams, Len(names))
    ELSE IF fault.opened
    THEN (names[fault.at] :> << >>) @@ Written(names, streams, fault.at - 1)
    ELSE Written(names, streams, fault.at - 1)

\* a failed call that falls back on a partition set computed anew
Regenerated ==
    [kpartitions |-> kpartitions, files |-> files,
     train_part |-> partition_by_class(labels, label_test, SeedPerm(0)).train,
     validation_part |-> validation_part,
     test_part |-> partition_by_class(labels, label_test, SeedPerm(0)).test]

\* What a call that raises has assigned and written by then.
Unassigned ==
    [kpartitions |-> kpartitions, files |-> files, train_part |-> train_part,
     validation_part |-> validation_part, test_part |-> test_part]

\* lines 216-238: self.kpartitions is assigned before the dump, self.test_part
\* before decimate_partition_stratified
CV_raised(a, fault, point, kp) ==
    [Unassigned EXCEPT
        !.kpartitions = kp,
        !.files = IF a.part_gen = 1
                  THEN FilesAfter(FilesWritten("CV"), <<pickle_dump_lists(kp)>>, fault)
                  ELSE files,
        !.test_part = IF point = "decimate"
                      THEN get_partition_stratified_kfold(a.part_kp, kp).test
                      ELSE test_part]

\* lines 272-279, 297-298: self.validation_part and self.test_part are
\* assigned before the dumps and before decimate_partition_stratified
TVT_raised(a, fault, src) ==
    [Unassigned EXCEPT
        !.validation_part = src.validation,
        !.test_part = src.test,
        !.files = IF a.part_gen = 1
                  THEN FilesAfter(FilesWritten("TVT"),
                                  <<pickle_dump_list(src.train),
                                    pickle_dump_list(src.validation),
                                    pickle_dump_list(src.test)>>, fault)
                  ELSE files]

\* lines 333-338, 401-405, 355-356, 423-424
TT_raised(a, fault, src) ==
    [Unassigned EXCEPT
        !.test_part = src.test,
        !.files = IF a.part_gen = 1
                  THEN FilesAfter(FilesWritten("TT"),
                                  <<pickle_dump_list(src.train),
                                    pickle_dump_list(src.test)>>, fault)
                  ELSE files]

Raised_at(a, p1, fault, point) ==
    IF point = "source" THEN Unassigned
    ELSE IF point = "read"
    THEN [Unassigned EXCEPT !.validation_part = pickle_load_list(files["_validation"])]
    ELSE IF variant = "CV" THEN CV_raised(a, fault, point, CV_folds(a, p1))
    ELSE IF variant = "TVT" THEN TVT_raised(a, fault, TVT_source(a, p1))
    ELSE TT_raised(a, fault, TT_source(a, p1))

Picked(a, p1, p2) ==
    IF variant = "CV" THEN Dataset_CrossValidation_pick(a, p1, p2)
    ELSE IF variant = "TVT" THEN Dataset_TVT_pick(a, p1, p2)
    ELSE Dataset_TT_pick(a, p1, p2)

\* a partitioning call made with no seed
SeedDropped(a) == NoSeed

\* lines 216, 222, 272-274, 333-335, 401-403: seed=seed
SeedPassed(a) == a.seed

\* what the record of a call keeps of its arguments
Recorded(a, track) == IF track THEN a ELSE [NoArgs EXCEPT !.part_gen = a.part_gen]

PickLabelCall(argset, track, snapshot) ==
    \E a \in argset :
      /\ Completes(a)
      /\ \E p1 \in (IF a.part_gen = 1 THEN Draws(SeedPassed(a)) ELSE {SeedPerm(0)}),
            p2 \in (IF Decimates(a) THEN Perms ELSE {SeedPerm(0)}) :
           \E r \in {Picked(a, p1, p2)} :
               /\ kpartitions' = r.kpartitions
               /\ files' = r.files
               /\ test_part' = r.test_part
               /\ train_part' = r.train_part
               /\ validation_part' = r.validation_part
               /\ gen' = IF snapshot /\ a.part_gen = 1
                         THEN [valid |-> TRUE, args |-> a,
                               repeat |-> gen.valid /\ gen.args = a,
                               train |-> r.train_part,
                               validation |-> r.validation_part,
                               test |-> r.test_part]
                         ELSE gen
      /\ last' = Op("pick_label", TRUE, Recorded(a, track), 0, 0, << >>)
      /\ run' = NoRun
      /\ sweep' = NoSweep
      /\ picked' = TRUE
      /\ UNCHANGED <<population, cursors>>

PickLabel(argset, track) == PickLabelCall(argset, track, track) /\ UNCHANGED driver

\* the call raises: a missing or unreadable file, a fold index that is no
\* fold, arguments a partitioning call rejects or, with a fault, a write that
\* fails. What it assigned and wrote before stays.
PickLabelFails(argset, track, faults) ==
    \E a \in argset, fault \in faults :
      \E point \in {RaisePoint(a, fault)} :
        /\ point # "none"
        /\ fault = NoFault \/ point = "write"
        /\ \E p1 \in (IF a.part_gen = 1 /\ point # "source"
                       THEN Draws(SeedPassed(a)) ELSE {SeedPerm(0)}) :
             \E r \in {Raised_at(a, p1, fault, point)} :
                 /\ kpartitions' = r.kpartitions
                 /\ files' = r.files
                 /\ test_part' = r.test_part
                 /\ train_part' = r.train_part
                 /\ validation_part' = r.validation_part
                 /\ gen' = IF r.files = files THEN gen ELSE NoGen
        /\ last' = [Op("pick_label", FALSE, Recorded(a, track), 0, 0, << >>)
                       EXCEPT !.raised = point]
        /\ run' = NoRun
        /\ sweep' = NoSweep
        /\ UNCHANGED <<population, cursors, picked>>

PickLabelRaises(argset, track) ==
    PickLabelFails(argset, track, {NoFault}) /\ UNCHANGED driver

\* pick_label called with any arguments
pick_label == PickLabel(ArgsOf(variant), TRUE)
pick_label_raises == PickLabelRaises(ArgsOf(variant), TRUE)

\* pick_label as the training driver calls it
driver_pick_label == PickLabel(DriverArgs(variant), FALSE)
driver_pick_label_raises == PickLabelRaises(DriverArgs(variant), FALSE)

\* a new instance of the same class on the same CSV; the files stay
Dataset_new ==
    /\ batch_ind' = 0
    /\ batch_ind_test' = 0
    /\ batch_ind_valid' = 0
    /\ train_part' = << >>
    /\ test_part' = << >>
    /\ validation_part' = << >>
    /\ kpartitions' = << >>
    /\ last' = Op("__init__", TRUE, NoArgs, 0, 0, << >>)
    /\ run' = NoRun
    /\ sweep' = NoSweep
    /\ picked' = FALSE
    /\ UNCHANGED <<population, files, gen>>

Dataset_init == Dataset_new /\ UNCHANGED driver

\* ---------------------------------------------------------------- batches
\* get_data_part (lines 90-116): the rows are fetched in ascending id order
get_data_part(rows) == Sorted(rows)

\* the label matrix with its columns in descending label order
get_data_part_lDescending(rows) ==
    [i \in 1 .. Len(rows) |->
        [k \in 1 .. num_labels |->
            IF labels[Sorted(rows)[i]] = label_types[num_labels + 1 - k] THEN 1 ELSE 0]]

\* lines 103-107: l, the label matrix of the rows fetched: row i is sample
\* srows[i], column k is self.label_types[k]
get_data_part_l(rows) ==
    [i \in 1 .. Len(rows) |->
        [k \in 1 .. num_labels |->
            IF labels[Sorted(rows)[i]] = label_types[k] THEN 1 ELSE 0]]

\* the record of a getter's call of get_data_part(rows)
Got(name, fetched, batch_size, at, rows) ==
    [Op(name, fetched, NoArgs, batch_size, at, get_data_part(rows))
        EXCEPT !.l = IF fetched THEN get_data_part_l(rows) ELSE << >>]

\* lines 93-96 and 112-114: the HDF5 and raster reads of the rows. With no row
\* to read, whether they return arrays of no rows or raise is up to h5py and
\* gdal_tools: both outcomes are kept. TRUE: the reads return.
Fetches(rows) == IF rows = << >> THEN {TRUE, FALSE} ELSE {TRUE}

\* the batch taken from the start of the partition, whatever the cursor
SliceFromStart(part, ind, batch_size) == PySlice(part, 0, batch_size)

\* lines 119-123, 142-146, 165-169: the batch at the cursor and the cursor
\* after it
SliceAt(part, ind, batch_size) == PySlice(part, ind, ind + batch_size)

\* the wrap test with > where the code has >=
CursorAfterStrict(part, ind, batch_size) ==
    IF ind + batch_size > Len(part) THEN 0 ELSE ind + batch_size

CursorAfter(part, ind, batch_size) ==
    IF ind + batch_size >= Len(part) THEN 0 ELSE ind + batch_size

\* history: the calls in a row of one getter with one batch size since its
\* cursor was 0; a call of any other operation ends it
RunAfter(r, name, batch_size, at, rows) ==
    IF at = 0
    THEN [getter |-> name, batch_size |-> batch_size, calls |-> 1, rows |-> rows]
    ELSE IF r.getter = name /\ r.batch_size = batch_size
    THEN [r EXCEPT !.calls = @ + 1, !.rows = @ \o rows]
    ELSE NoRun

\* history: the rows the calls in a row of one getter have returned since its
\* cursor was 0, whatever their batch sizes, in ascending order
SweepAfter(w, name, at, rows) ==
    IF at = 0 THEN [getter |-> name, rows |-> Sorted(rows)]
    ELSE IF w.getter = name THEN [w EXCEPT !.rows = Sorted(@ \o rows)]
    ELSE NoSweep

\* a getter that takes the rows it returns out of train_part
TrainBatchTaking(name, batch_size) ==
    \E rows \in {get_data_part(SliceAt(train_part, batch_ind, batch_size))} :
      /\ train_part' = SelectSeq(train_part, LAMBDA i : \A j \in DOMAIN rows : rows[j] # i)
      /\ batch_ind' = 0
      /\ last' = Op(name, TRUE, NoArgs, batch_size, batch_ind, rows)
      /\ run' = NoRun
      /\ sweep' = NoSweep
      /\ UNCHANGED <<population, validation_part, test_part, batch_ind_valid,
                     batch_ind_test, kpartitions, files, gen, picked,
                     driver>>

\* Dataset.get_train_batch, lines 118-124
TrainBatch(name, batch_size) ==
    \E rows \in {SliceAt(train_part, batch_ind, batch_size)} :
     \E fetched \in Fetches(rows) :
      /\ batch_ind' = IF fetched THEN CursorAfter(train_part, batch_ind, batch_size)
                  ELSE batch_ind
      /\ last' = Got(name, fetched, batch_size, batch_ind, rows)
      /\ run' = IF fetched THEN RunAfter(run, name, batch_size, batch_ind, get_data_part(rows))
                ELSE NoRun
      /\ sweep' = IF fetched THEN SweepAfter(sweep, name, batch_ind, rows) ELSE NoSweep
      /\ UNCHANGED <<population, parts, batch_ind_valid, batch_ind_test, kpartitions,
                     files, gen, picked, driver>>

\* the validation getter working on the training partition and its cursor
ValidationBatchOnTrain(name, batch_size) == TrainBatch(name, batch_size)

\* Dataset.get_validation_batch, lines 141-147
ValidationBatch(name, batch_size) ==
    \E rows \in {SliceAt(validation_part, batch_ind_valid, batch_size)} :
     \E fetched \in Fetches(rows) :
      /\ batch_ind_valid' = IF fetched THEN CursorAfter(validation_part, batch_ind_valid, batch_size)
                  ELSE batch_ind_valid
      /\ last' = Got(name, fetched, batch_size, batch_ind_valid, rows)
      /\ run' = IF fetched THEN RunAfter(run, name, batch_size, batch_ind_valid, get_data_part(rows))
                ELSE NoRun
      /\ sweep' = IF fetched THEN SweepAfter(sweep, name, batch_ind_valid, rows) ELSE NoSweep
      /\ UNCHANGED <<population, parts, batch_ind, batch_ind_test, kpartitions,
                     files, gen, picked, driver>>

\* Dataset.get_test_batch, lines 164-170
TestBatch(name, batch_size) ==
    \E rows \in {SliceAt(test_part, batch_ind_test, batch_size)} :
     \E fetched \in Fetches(rows) :
      /\ batch_ind_test' = IF fetched THEN CursorAfter(test_part, batch_ind_test, batch_size)
                  ELSE batch_ind_test
      /\ last' = Got(name, fetched, batch_size, batch_ind_test, rows)
      /\ run' = IF fetched THEN RunAfter(run, name, batch_size, batch_ind_test, get_data_part(rows))
                ELSE NoRun
      /\ sweep' = IF fetched THEN SweepAfter(sweep, name, batch_ind_test, rows) ELSE NoSweep
      /\ UNCHANGED <<population, parts, batch_ind, batch_ind_valid, kpartitions,
                     files, gen, picked, driver>>

get_train_batch == \E batch_size \in BatchSizes : TrainBatch("get_train_batch", batch_size)

\* Dataset_TT and Dataset_TT_byclass override it (lines 360-361, 428-429)
get_validation_batch ==
    \E batch_size \in BatchSizes :
        IF variant \in TwoWay
        THEN TrainBatch("get_validation_batch", batch_size)
        ELSE ValidationBatch("get_validation_batch", batch_size)

get_test_batch == \E batch_size \in BatchSizes : TestBatch("get_test_batch", batch_size)

\* the per-class size rounded up where the code truncates
LBatchSizeUp(batch_size) == CeilDiv(batch_size, num_labels)

\* lines 129, 152: np.int(batch_size / np.float(lsize))
LBatchSize(batch_size) == batch_size \div num_labels

\* the positions of `part` that hold a sample of class l
ClassPositions(part, l) == {j \in DOMAIN part : labels[part[j]] = l}

\* lines 130-132, 153-155: per class, the first lbatch_size of a random
\* permutation of its positions: any lbatch_size of them, or all if fewer
BalancedChoices(part, batch_size) ==
    {S \in SUBSET (DOMAIN part) :
        \A k \in 1 .. num_labels :
            Cardinality(S \cap ClassPositions(part, label_types[k])) =
                Min2(LBatchSize(batch_size), Cardinality(ClassPositions(part, label_types[k])))}

\* the positions drawn, taken as sample ids: rows += list(lrows)
RowsAtPositions(part, S) ==
    SelectSeq([j \in 1 .. Len(part) |-> j - 1], LAMBDA i : (i + 1) \in S)

RowsAt(part, S) == SelectSeq(part, LAMBDA i : \E j \in S : part[j] = i)

\* Dataset.get_balanced_train_batch, lines 126-134, and
\* Dataset.get_balanced_validation_batch, lines 149-157
BalancedBatchCall(name, part, batch_size) ==
    \E S \in BalancedChoices(part, batch_size) :
     \E fetched \in Fetches(RowsAt(part, S)) :
      /\ last' = Got(name, fetched, batch_size, 0, RowsAt(part, S))
      /\ run' = NoRun
      /\ sweep' = NoSweep
      /\ UNCHANGED <<population, parts, cursors, kpartitions, files, gen, picked>>

BalancedBatch(name, part, batch_size) ==
    BalancedBatchCall(name, part, batch_size) /\ UNCHANGED driver

get_balanced_train_batch ==
    \E batch_size \in BalancedSizes :
        BalancedBatch("get_balanced_train_batch", train_part, batch_size)

\* Dataset_TT and Dataset_TT_byclass override it (lines 363-364, 431-432)
get_balanced_validation_batch ==
    \E batch_size \in BalancedSizes :
        BalancedBatch("get_balanced_validation_batch",
                      IF variant \in TwoWay THEN train_part ELSE validation_part,
                      batch_size)

\* get_train_data, get_validation_data, get_test_data (lines 136-139, 159-162,
\* 172-175)
WholePart(name, part) ==
    /\ \E fetched \in Fetches(part) :
          last' = Got(name, fetched, 0, 0, part)
    /\ run' = NoRun
    /\ sweep' = NoSweep
    /\ UNCHANGED <<population, parts, cursors, kpartitions, files, gen, picked,
                     driver>>

get_train_data == WholePart("get_train_data", train_part)
get_validation_data == WholePart("get_validation_data", validation_part)
get_test_data == WholePart("get_test_data", test_part)

\* -------------------------------------------------------------- iterators
\* the number of batches rounded down where the code rounds up
NumIterFloor(len, batch_num) == len \div batch_num

\* lines 178, 184: np.int(np.ceil(len(part) / batch_num))
NumIter(len, batch_num) == CeilDiv(len, batch_num)

\* lines 179-181, 185-187: the batches the generator yields, in order
IterBatches(part, batch_num) ==
    [i \in 1 .. NumIter(Len(part), batch_num) |->
        get_data_part(PySlice(part, (i - 1) * batch_num, i * batch_num))]

\* a for loop over the generator (ordinal_classification_10class.py, lines
\* 260, 303 and 363) that takes `taken` batches; in the record of the call,
\* ok says that the loop ran to the generator's end
IterateLoop(name, part, batch_num) ==
    \E batches \in {IterBatches(part, batch_num)} :
      \E taken \in 0 .. Len(batches) :
        /\ last' = Op(name, taken = Len(batches), NoArgs, batch_num, taken,
                      SubSeq(batches, 1, taken))
        /\ run' = NoRun
        /\ sweep' = NoSweep
        /\ UNCHANGED <<population, parts, cursors, kpartitions, files, gen, picked>>

Iterate(name, part, batch_num) == IterateLoop(name, part, batch_num) /\ UNCHANGED driver

\* Dataset.test_iterator, lines 177-181
test_iterator ==
    \E batch_num \in BatchSizes : Iterate("test_iterator", test_part, batch_num)

\* Dataset.validation_iterator, lines 183-187
validation_iterator ==
    \E batch_num \in BatchSizes : Iterate("validation_iterator", validation_part, batch_num)

\* ------------------------------------------------------ prediction tables
\* the rows of the table a writer writes: lines 190, 303, 367, 435
\* the predictions gathered over one pass of test_iterator / validation_iterator
\* with batches of batch_num (ordinal_classification_10class.py, lines 363-374:
\* preds_list.append(preds_) per batch): one per row of each batch, in the
\* order of the batches. A prediction is named by the sample it was made for.
PredsOfPass(part, batch_num) == Flatten(IterBatches(part, batch_num))

\* lines 189-194: row k of the table is sample srows[k], its label and preds[k]
WriteTable(name, part) ==
    /\ \E batch_num \in BatchSizes :
          last' = [Op(name, TRUE, NoArgs, batch_num, 0, Sorted(part))
                     EXCEPT !.preds = PredsOfPass(part, batch_num)]
    /\ run' = NoRun
    /\ sweep' = NoSweep
    /\ UNCHANGED <<population, parts, cursors, kpartitions, files, gen, picked,
                   driver>>

write_preds == WriteTable("write_preds", test_part)

\* Dataset_CrossValidation has no write_preds_validation
write_preds_validation ==
    /\ variant # "CV"
    /\ WriteTable("write_preds_validation", validation_part)

Next ==
    \/ driver_pick_label
    \/ driver_pick_label_raises
    \/ Dataset_init
    \/ get_train_batch
    \/ get_balanced_train_batch
    \/ get_train_data
    \/ get_validation_batch
    \/ get_balanced_validation_batch
    \/ get_validation_data
    \/ get_test_batch
    \/ get_test_data
    \/ test_iterator
    \/ validation_iterator
    \/ write_preds
    \/ write_preds_validation

Spec == Init /\ [][Next]_vars

NextPartition == pick_label \/ pick_label_raises \/ Dataset_init

SpecPartition == InitPartition /\ [][NextPartition]_vars

\* ------------------------------------------- calls that fail (SpecFailure)
\* argument values inside and outside what the code documents: fractions in
\* and around (0, 1), a fold index past the last fold
AnyGenerateArgs(v) ==
    IF v = "CV"
    THEN {[NoArgs EXCEPT !.part_gen = 1, !.part_kn = MaxFolds, !.part_kp = kp,
                         !.vsize = vs, !.seed = 1] :
            kp \in 0 .. MaxFolds, vs \in {0 - 1, 0, Den \div 2, Den}}
    ELSE IF v = "TVT"
    THEN {[NoArgs EXCEPT !.part_gen = 1, !.train_size = ts, !.valid_size = vl,
                         !.psize = ps, !.seed = 1] :
            ts \in {0, 1, Den}, vl \in {0, 1, Den}, ps \in {0, Den \div 2, Den}}
    ELSE {[NoArgs EXCEPT !.part_gen = 1, !.train_size = ts, !.psize = ps, !.seed = 1] :
            ts \in {0, Den \div 2, Den}, ps \in {0, Den \div 2, Den, Den + 1}}

\* the calls made: at most one argument is off what the code documents
OneOff(a) ==
    Cardinality({f \in {"part_kp", "vsize", "train_size", "valid_size", "psize"} :
                    a[f] # (IF f = "psize" THEN Den
                            ELSE IF f = "vsize" /\ variant = "CV" THEN Den \div 2
                            ELSE IF f = "train_size" /\ variant = "TVT" THEN 1
                            ELSE IF f = "train_size" /\ variant = "TT" THEN Den \div 2
                            ELSE IF f = "valid_size" /\ variant = "TVT" THEN 1
                            ELSE 0)}) <= 1

AnyArgs(v) ==
    {a \in AnyGenerateArgs(v) : OneOff(a)} \cup
    {LoadView(a) : a \in {g \in AnyGenerateArgs(v) : OneOff(g)}}

pick_label_any == PickLabelCall(AnyArgs(variant), TRUE, FALSE) /\ UNCHANGED driver
pick_label_any_raises == PickLabelRaises(AnyArgs(variant), TRUE)

\* a generate-mode call one of whose writes fails
pick_label_write_fails ==
    /\ PickLabelFails({a \in AnyArgs(variant) : a.part_gen = 1}, TRUE, WriteFaults(variant))
    /\ UNCHANGED driver

InitFailure ==
    /\ NoScript
    /\ files = << >>
    /\ \E v \in Variants, raw \in {r \in BatchLabelColumns : r[1] # r[NumSamples - 2]} :
          Dataset_init_state(v, raw, None, 1)

NextFailure ==
    \/ pick_label_any
    \/ pick_label_any_raises
    \/ pick_label_write_fails
    \/ Dataset_init
    \/ get_train_batch
    \/ get_validation_batch
    \/ get_test_batch

SpecFailure == InitFailure /\ [][NextFailure]_vars

\* ---------------------------------- runs of the training script (SpecDriver)
\* ordinal_classification_10class.py. A run constructs the instance, calls
\* pick_label once and, unless it ends there, goes on to use the instance
\* (lines 243-387: validation_iterator, get_balanced_train_batch,
\* test_iterator); what it may call then is widened to every operation of the
\* class but pick_label.

\* a script without lines 149-150
ScriptAfterPickGoesOn(part_gen) == "running"

\* lines 149-150: if part_gen: sys.exit(1)
ScriptAfterPick(part_gen) == IF part_gen = 1 THEN "exited" ELSE "running"

\* lines 136-146: DS = datasets.Dataset_...(...), in a new process
script_start ==
    /\ pc \in {"none", "exited", "failed", "done"}
    /\ Dataset_new
    /\ pc' = "constructed"
    /\ script_batch_size' = 0
    /\ epoch' = 0
    /\ step' = 0
    /\ mae_error_list' = << >>
    /\ loss_min' = 0
    /\ checkpoint' = NoCheckpoint

\* lines 138-150: DS.pick_label(part_gen, part_file, ...)
script_pick_label ==
    /\ pc = "constructed"
    /\ PickLabelCall(DriverArgs(variant), FALSE, FALSE)
    /\ pc' = ScriptAfterPick(last'.args.part_gen)
    /\ UNCHANGED training

\* the exception of pick_label ends the run
script_pick_label_raises ==
    /\ pc = "constructed"
    /\ PickLabelFails(DriverArgs(variant), FALSE, {NoFault})
    /\ pc' = "failed"
    /\ UNCHANGED training

\* lines 243-387
script_batching ==
    /\ pc = "running"
    /\ \/ get_train_batch
       \/ get_balanced_train_batch
       \/ get_train_data
       \/ get_validation_batch
       \/ get_balanced_validation_batch
       \/ get_validation_data
       \/ get_test_batch
       \/ get_test_data
       \/ test_iterator
       \/ validation_iterator
       \/ write_preds
       \/ write_preds_validation

\* the end of the script
script_end ==
    /\ pc = "running"
    /\ pc' = "done"
    /\ UNCHANGED <<population, parts, cursors, kpartitions, files, last, gen, run,
                   sweep, picked, training>>

NextDriver ==
    \/ script_start
    \/ script_pick_label
    \/ script_pick_label_raises
    \/ script_batching
    \/ script_end

SpecDriver == Init /\ [][NextDriver]_vars

\* ------------------------------------- a training run (SpecTraining)
\* ordinal_classification_10class.py with --train, lines 243-332. A validation
\* MAE is a number of 0 .. MaxMae: what the network predicts is not modelled.
MaeValues == 0 .. MaxMae

\* line 245: np.int(len(DS.train_part) / np.float(batch_size))
IterPerEpoch == Len(train_part) \div script_batch_size

\* line 320: np.mean(mae_error_list[-1]), the mean of one number
MeanOfLast(l) == l[Len(l)]

\* lines 251-276: the validation error before training. The loop goes through
\* the whole of validation_iterator; with no batch, runi is 0 and line 270
\* divides the integer 0 by 0.0, which raises ZeroDivisionError.
train_begin ==
    /\ pc = "running"
    /\ \E batch_size \in BatchSizes :
          /\ IterateLoop("validation_iterator", validation_part, batch_size)
          /\ script_batch_size' = batch_size
    /\ last'.ok
    /\ epoch' = 0
    /\ step' = 0
    /\ checkpoint' = NoCheckpoint
    /\ IF last'.at = 0
       THEN /\ pc' = "failed"
            /\ UNCHANGED <<mae_error_list, loss_min>>
       ELSE /\ pc' = "training"
            /\ \E mae_error \in MaeValues :
                  /\ loss_min' = mae_error
                  /\ mae_error_list' = <<mae_error>>

\* lines 282-284: one training batch; an exception of the getter ends the run
train_step ==
    /\ pc = "training"
    /\ epoch < num_epochs
    /\ step < IterPerEpoch
    /\ BalancedBatchCall("get_balanced_train_batch", train_part, script_batch_size)
    /\ pc' = IF last'.ok THEN "training" ELSE "failed"
    /\ step' = IF last'.ok THEN step + 1 ELSE step
    /\ UNCHANGED <<script_batch_size, epoch, mae_error_list, loss_min, checkpoint>>

\* lines 300-324: the validation pass at the end of an epoch and the decision
\* on the checkpoint
train_validate ==
    /\ pc = "training"
    /\ epoch < num_epochs
    /\ step = IterPerEpoch
    /\ IterateLoop("validation_iterator", validation_part, script_batch_size)
    /\ last'.ok
    /\ \E mae_error \in MaeValues :
          mae_error_list' = Append(mae_error_list, mae_error)
    /\ \E mean \in {MeanOfLast(mae_error_list')} :
          /\ loss_min' = IF mean < loss_min THEN mean ELSE loss_min
          /\ checkpoint' = [written |-> mean < loss_min, before |-> loss_min,
                            latest |-> loss_min', window |-> <<mean>>]
    /\ epoch' = epoch + 1
    /\ step' = 0
    /\ UNCHANGED <<pc, script_batch_size>>

\* lines 329-332: the lists are written and the script ends
train_end ==
    /\ pc = "training"
    /\ epoch = num_epochs
    /\ pc' = "done"
    /\ UNCHANGED <<population, parts, cursors, kpartitions, files, last, gen, run,
                   sweep, picked, training>>

NextTraining ==
    \/ script_start
    \/ script_pick_label
    \/ script_pick_label_raises
    \/ train_begin
    \/ train_step
    \/ train_validate
    \/ train_end

SpecTraining == Init /\ [][NextTraining]_vars

\* ======================================================== batches (Spec)
SequentialGetters == {"get_train_batch", "get_validation_batch", "get_test_batch"}
BalancedGetters == {"get_balanced_train_batch", "get_balanced_validation_batch"}
Iterators == {"test_iterator", "validation_iterator"}

\* the partition and the cursor a sequential getter of this instance works on
PartOf(getter) ==
    IF getter = "get_test_batch" THEN test_part
    ELSE IF getter = "get_validation_batch" /\ variant \notin TwoWay THEN validation_part
    ELSE train_part

CursorOf(getter) ==
    IF getter = "get_test_batch" THEN batch_ind_test
    ELSE IF getter = "get_validation_batch" /\ variant \notin TwoWay THEN batch_ind_valid
    ELSE batch_ind

\* C1: from a cursor of 0 on a non-empty partition, c consecutive calls of one
\* sequential getter with one batch_size have returned the first c * batch_size
\* indices of the partition, once each; after ceil(|partition| / batch_size)
\* calls that is the whole partition and the cursor is 0 again, before that
\* the cursor is c * batch_size; and every call made at cursor 0 returns the
\* first batch_size indices.
C1_CursorWrap ==
    /\ (run.getter \in SequentialGetters /\ PartOf(run.getter) # << >>) =>
          /\ run.calls <= CeilDiv(Len(PartOf(run.getter)), run.batch_size)
          /\ SameElements(run.rows,
                          PySlice(PartOf(run.getter), 0, run.calls * run.batch_size))
          /\ IF run.calls = CeilDiv(Len(PartOf(run.getter)), run.batch_size)
             THEN /\ SameElements(run.rows, PartOf(run.getter))
                  /\ CursorOf(run.getter) = 0
             ELSE CursorOf(run.getter) = run.calls * run.batch_size
    /\ (last.op \in SequentialGetters /\ last.at = 0) =>
          last.ret = Sorted(PySlice(PartOf(last.op), 0, last.batch_size))

\* a pass of two calls or more whose last batch was short has just wrapped
C1_Witness ==
    /\ run.getter \in SequentialGetters
    /\ run.calls >= 2
    /\ run.calls = CeilDiv(Len(PartOf(run.getter)), run.batch_size)
    /\ Len(PartOf(run.getter)) % run.batch_size # 0
    /\ CursorOf(run.getter) = 0

\* the samples of class l in a sequence of indices
CountOfClass(rows, l) == Cardinality({j \in DOMAIN rows : labels[rows[j]] = l})

\* the partition a balanced getter of this instance draws from
BalancedPartOf(getter) ==
    IF getter = "get_balanced_train_batch" \/ variant \in TwoWay
    THEN train_part ELSE validation_part

\* C5 (as amended): a balanced getter returns, of each class of the
\* population, batch_size // num_classes samples of the partition it draws
\* from, or all the partition has of the class when it has fewer.
C5_BalancedUpToClassSize ==
    last.op \in BalancedGetters =>
        \A k \in 1 .. num_labels :
            CountOfClass(last.ret, label_types[k]) =
                Min2(last.batch_size \div num_labels,
                     CountOfClass(BalancedPartOf(last.op), label_types[k]))

\* a batch was drawn where a class of the partition is too small for its share
C5_Witness ==
    /\ last.op \in BalancedGetters
    /\ last.ret # << >>
    /\ \E k \in 1 .. num_labels :
          /\ CountOfClass(BalancedPartOf(last.op), label_types[k]) > 0
          /\ CountOfClass(BalancedPartOf(last.op), label_types[k]) <
                 last.batch_size \div num_labels

\* C5 (as stated): exactly batch_size // num_classes samples of each class of
\* the partition, whatever its imbalance.
C5_ExactlyPerClass ==
    last.op \in BalancedGetters =>
        \A k \in 1 .. num_labels :
            CountOfClass(BalancedPartOf(last.op), label_types[k]) > 0 =>
                CountOfClass(last.ret, label_types[k]) = last.batch_size \div num_labels

\* the partition an iterator walks
IterPartOf(name) == IF name = "test_iterator" THEN test_part ELSE validation_part

\* C6: a loop over test_iterator(batch_num) or validation_iterator(batch_num)
\* that runs to the generator's end has taken ceil(|partition| / batch_num)
\* batches, the consecutive slices of the partition, each of batch_num indices
\* but possibly the last, holding every index of the partition once; wherever
\* the cursors and earlier loops had got to.
C6_FullPass ==
    (last.op \in Iterators /\ last.ok) =>
        /\ Len(last.ret) = CeilDiv(Len(IterPartOf(last.op)), last.batch_size)
        /\ \A i \in 1 .. Len(last.ret) :
              /\ last.ret[i] = Sorted(PySlice(IterPartOf(last.op), (i - 1) * last.batch_size,
                                              i * last.batch_size))
              /\ last.ret[i] # << >>
              /\ i < Len(last.ret) => Len(last.ret[i]) = last.batch_size
        /\ SameElements(Flatten(last.ret), IterPartOf(last.op))

\* a full pass of two batches or more with a short last one, made while a
\* cursor stood in the middle of its partition
C6_Witness ==
    /\ last.op \in Iterators
    /\ last.ok
    /\ Len(last.ret) >= 2
    /\ Len(last.ret[Len(last.ret)]) < last.batch_size
    /\ cursors # <<0, 0, 0>>

\* C9 (as stated): in Dataset_TT and Dataset_TT_byclass every validation
\* operation returns, iterates over or writes the samples of train_part.
C9_ValidationIsTrain ==
    (variant \in TwoWay /\ picked) =>
        /\ last.op = "get_validation_batch" =>
              last.ret = Sorted(PySlice(train_part, last.at, last.at + last.batch_size))
        /\ last.op = "get_balanced_validation_batch" =>
              Range(last.ret) \subseteq Range(train_part)
        /\ (last.op = "validation_iterator" /\ last.ok) =>
              SameElements(Flatten(last.ret), train_part)
        /\ last.op \in {"get_validation_data", "write_preds_validation"} =>
              last.ret = Sorted(train_part)

\* the part of C9 the classes do implement: the two batch getters
C9_BatchesAreTrain ==
    (variant \in TwoWay /\ picked) =>
        /\ last.op = "get_validation_batch" =>
              last.ret = Sorted(PySlice(train_part, last.at, last.at + last.batch_size))
        /\ last.op = "get_balanced_validation_batch" =>
              Range(last.ret) \subseteq Range(train_part)

\* a two-way instance with samples to train on has run a validation
\* operation that came back empty
C9_Witness ==
    /\ variant \in TwoWay
    /\ picked
    /\ train_part # << >>
    /\ last.op \in {"validation_iterator", "get_validation_data", "write_preds_validation"}
    /\ last.ok
    /\ last.ret = << >>

\* C10 (as amended): once pick_label has completed on an instance, no batch
\* getter, balanced getter, whole-partition getter, iterator or prediction
\* writer changes train_part, validation_part or test_part; a further
\* pick_label call that completes does assign them again.
C10_PartitionsFixedUnderReads ==
    [][(picked /\ last'.op \notin {"pick_label", "__init__"}) => parts' = parts]_vars

\* a getter has moved a cursor of an instance whose partitions were picked
C10_Witness ==
    /\ picked
    /\ last.op \in SequentialGetters
    /\ CursorOf(last.op) # 0
    /\ train_part # << >>
    /\ test_part # << >>

\* C10 (as stated): nor does a further pick_label call change them.
C10_PartitionsNeverChange ==
    [][(picked /\ last'.op # "__init__") => parts' = parts]_vars

\* ================================================ partitions (SpecPartition)
\* the call that ended last was a pick_label that ran to its end
JustPicked == last.op = "pick_label" /\ last.ok

\* the call that ended last loaded the files of the last generating call,
\* with the arguments of that call
Replayed ==
    /\ JustPicked
    /\ last.args.part_gen # 1
    /\ gen.valid
    /\ last.args = LoadView(gen.args)

\* C2 (as amended): a load-mode pick_label on the files of a generating call
\* with the same arguments ends with the same test_part, in Dataset_TVT the
\* same validation_part, and - when the call takes no subset (vsize <= 0 in
\* Dataset_CrossValidation, psize >= 1.0 in the others) - the same
\* train_part; when it takes one, the subset is drawn again, without a seed:
\* train_part and validation_part of Dataset_CrossValidation again split what
\* the generating call split, and train_part of the others is again a subset,
\* of the same size, of the training partition in the file.
C2_ReplayUpToSubset ==
    Replayed =>
        /\ test_part = gen.test
        /\ variant = "TVT" => validation_part = gen.validation
        /\ IF variant = "CV"
           THEN IF last.args.vsize > 0
                THEN Range(train_part) \cup Range(validation_part) =
                         Range(gen.train) \cup Range(gen.validation)
                ELSE train_part = gen.train
           ELSE IF last.args.psize < Den
                THEN /\ Range(train_part) \subseteq Range(SubSeq(files["_train"], 2,
                                                                Len(files["_train"])))
                     /\ Len(train_part) = Len(gen.train)
                ELSE train_part = gen.train

\* a replay that took a subset other than the generating call's
C2_Witness ==
    /\ Replayed
    /\ Range(train_part) # Range(gen.train)
    /\ test_part # << >>

\* C2 (as stated): the three partitions are, as index sets, the ones the
\* generating call ended with.
C2_ReplayIdentical ==
    Replayed =>
        /\ Range(train_part) = Range(gen.train)
        /\ Range(validation_part) = Range(gen.validation)
        /\ Range(test_part) = Range(gen.test)

\* C3: the train and test partitions Dataset_TT.pick_label gets in generate
\* mode, with no constraint column and psize = 1.0, are disjoint, hold every
\* sample once between them, and of every class the number of samples in
\* train differs from train_size times the class's count by less than one.
C3_StratifiedSplit ==
    (JustPicked /\ variant = "TT" /\ last.args.part_gen = 1 /\ clabels = None
       /\ last.args.psize = Den) =>
        /\ Range(train_part) \cap Range(test_part) = {}
        /\ Range(train_part) \cup Range(test_part) = Ids
        /\ Len(train_part) + Len(test_part) = NumSamples
        /\ \A k \in 1 .. num_labels :
              /\ CountOfClass(train_part, label_types[k]) * Den
                    - last.args.train_size * CountOfClass(AllIds, label_types[k]) < Den
              /\ last.args.train_size * CountOfClass(AllIds, label_types[k])
                    - CountOfClass(train_part, label_types[k]) * Den < Den

\* a split of two classes where train_size times a class's count is no whole
\* number
C3_Witness ==
    /\ JustPicked
    /\ variant = "TT"
    /\ last.args.part_gen = 1
    /\ clabels = None
    /\ last.args.psize = Den
    /\ num_labels = 2
    /\ train_part # << >>
    /\ test_part # << >>
    /\ \E k \in 1 .. num_labels :
          (last.args.train_size * CountOfClass(AllIds, label_types[k])) % Den # 0

\* two samples that share a group key lie in two different partitions
GroupSplit ==
    \E i, j \in Ids :
        /\ clabels[i] = clabels[j]
        /\ \/ i \in Range(train_part) /\ j \in Range(validation_part) \cup Range(test_part)
           \/ i \in Range(validation_part) /\ j \in Range(test_part)

\* C4 (as stated): with a constraint column, after pick_label of any of the
\* four classes no two samples that share a group key lie in two different
\* partitions.
C4_GroupCohesion ==
    (JustPicked /\ clabels # None) => ~GroupSplit

\* the part of C4 that holds: the classes that pass the constraint column on,
\* for the partitions the call assigns (Dataset_CrossValidation assigns
\* validation_part only with vsize > 0)
C4_CohesionWherePassed ==
    (JustPicked /\ clabels # None /\ variant # "TT_byclass"
       /\ (variant = "CV" => last.args.vsize > 0)) => ~GroupSplit

\* Dataset_TT_byclass has put the samples of one group into train and test
C4_Witness ==
    /\ JustPicked
    /\ variant = "TT_byclass"
    /\ last.args.part_gen = 1
    /\ clabels # None
    /\ GroupSplit

\* the samples of the folds other than fold part_kp
OtherFolds(part_kp) ==
    UNION {Range(kpartitions[f]) : f \in DOMAIN kpartitions \ {part_kp + 1}}

\* C7 (as stated): after Dataset_CrossValidation.pick_label, test_part is fold
\* part_kp, and train_part together with validation_part is the union of the
\* other folds and disjoint from test_part (train_part alone with vsize = 0).
C7_FoldSelection ==
    (JustPicked /\ variant = "CV") =>
        /\ test_part = kpartitions[last.args.part_kp + 1]
        /\ Range(train_part) \cup Range(validation_part) = OtherFolds(last.args.part_kp)
        /\ (Range(train_part) \cup Range(validation_part)) \cap Range(test_part) = {}
        /\ last.args.vsize = 0 => Range(train_part) = OtherFolds(last.args.part_kp)

\* the part of C7 that holds: what the call assigns (validation_part only
\* with vsize > 0)
C7_FoldSelectionAssigned ==
    (JustPicked /\ variant = "CV") =>
        /\ test_part = kpartitions[last.args.part_kp + 1]
        /\ OtherFolds(last.args.part_kp) \cap Range(test_part) = {}
        /\ IF last.args.vsize > 0
           THEN Range(train_part) \cup Range(validation_part) =
                    OtherFolds(last.args.part_kp)
           ELSE Range(train_part) = OtherFolds(last.args.part_kp)

\* a call with vsize = 0 has left the validation slice of an earlier call in
\* place, and it holds samples of the fold now under test
C7_Witness ==
    /\ JustPicked
    /\ variant = "CV"
    /\ last.args.vsize = 0
    /\ Range(validation_part) \cap Range(test_part) # {}

\* the step is a generate-mode pick_label with a seed that repeats the
\* arguments of the generating call before it
RepeatsSeeded ==
    /\ last'.op = "pick_label"
    /\ last'.ok
    /\ last'.args.part_gen = 1
    /\ last'.args.seed # NoSeed
    /\ gen.valid
    /\ gen.args = last'.args

\* C8 (as amended): two generate-mode pick_label calls with the same seed and
\* the same other arguments end with the same test_part, in Dataset_TVT the
\* same validation_part, and the same train_part when the call takes no
\* subset (vsize <= 0 in Dataset_CrossValidation, psize >= 1.0 in the
\* others); the subset is drawn without the seed, so that otherwise only what
\* it is drawn from is the same.
C8_SeededUpToSubset ==
    [][RepeatsSeeded =>
          /\ test_part' = gen.test
          /\ variant = "TVT" => validation_part' = gen.validation
          /\ IF variant = "CV"
             THEN IF gen.args.vsize > 0
                  THEN Range(train_part') \cup Range(validation_part') =
                           Range(gen.train) \cup Range(gen.validation)
                  ELSE train_part' = gen.train
             ELSE IF gen.args.psize < Den
                  THEN Len(train_part') = Len(gen.train)
                  ELSE train_part' = gen.train]_vars

\* a seeded generating call that takes a subset was repeated
C8_Witness ==
    /\ JustPicked
    /\ gen.valid
    /\ gen.repeat
    /\ gen.args = last.args
    /\ gen.args.seed # NoSeed
    /\ IF variant = "CV" THEN gen.args.vsize > 0 ELSE gen.args.psize < Den
    /\ train_part # << >>
    /\ test_part # << >>

\* C8 (as stated): the two calls end with identical train_part,
\* validation_part and test_part.
C8_SeededIdentical ==
    [][RepeatsSeeded =>
          /\ train_part' = gen.train
          /\ validation_part' = gen.validation
          /\ test_part' = gen.test]_vars

\* ================================================= batch requests (Spec)
BatchRequests == SequentialGetters \cup BalancedGetters \cup Iterators

\* the call recorded last raised: a getter whose reads failed. An iterator
\* reads non-empty slices only, and the loop over it ends without an error.
Raised == last.op \notin Iterators /\ ~last.ok

\* C11: a batch request (sequential getter, balanced getter or iterator) on an
\* instance on which pick_label has not completed aborts with an error: it
\* returns no batch and leaves the three cursors where they were (at 0).
C11_StateErrorBeforePick ==
    (~picked /\ last.op \in BatchRequests) =>
        /\ Raised
        /\ batch_ind = 0 /\ batch_ind_valid = 0 /\ batch_ind_test = 0

\* a loop over an iterator of an instance without partitions ran to its end:
\* no batch, no error
C11_Witness ==
    /\ ~picked
    /\ last.op \in Iterators
    /\ last.ok
    /\ last.ret = << >>
    /\ train_part = << >> /\ validation_part = << >> /\ test_part = << >>

\* ============================================ failing calls (SpecFailure)
\* the step is a pick_label call in load mode
LoadCall == last'.op = "pick_label" /\ last' # last /\ last'.args.part_gen # 1

\* C12: a load-mode pick_label that finds one of its partition files missing
\* or unreadable fails, and computes no partition set instead: it writes no
\* file, and the only attribute it may have assigned by then is one it read
\* from a file (self.validation_part, line 285).
C12_LoadNeverRegenerates ==
    [][(LoadCall /\ \E sfx \in FilesRead(variant) : ~Readable(sfx)) =>
          /\ ~last'.ok
          /\ files' = files
          /\ kpartitions' = kpartitions
          /\ train_part' = train_part
          /\ test_part' = test_part
          /\ \/ validation_part' = validation_part
             \/ /\ Readable("_validation")
                /\ validation_part' = pickle_load_list(files["_validation"])]_vars

\* a load-mode call has failed on an instance that had partitions, with one
\* of its files cut short by a failed write
C12_Witness ==
    /\ last.op = "pick_label"
    /\ ~last.ok
    /\ last.args.part_gen # 1
    /\ \E sfx \in FilesRead(variant) : sfx \in DOMAIN files /\ ~Readable(sfx)
    /\ train_part # << >>
    /\ test_part # << >>

\* the arguments of a call that reach a partitioning call which rejects them:
\* train_size and valid_size in generate mode (not in Dataset_TT_byclass,
\* which has no use for train_size), psize when it is below 1, vsize when it
\* is above 0, part_kp against the number of folds
Rejected(a) ==
    \/ a.part_gen = 1 /\ variant \in {"TVT", "TT"} /\ (a.train_size <= 0 \/ a.train_size >= Den)
    \/ a.part_gen = 1 /\ variant = "TVT" /\ (a.valid_size <= 0 \/ a.valid_size >= Den)
    \/ variant # "CV" /\ a.psize <= 0
    \/ variant = "CV" /\ a.vsize >= Den
    \/ variant = "CV" /\ a.part_gen = 1 /\ a.part_kp >= a.part_kn
    \/ variant = "CV" /\ a.part_gen # 1 /\ Readable("") /\ a.part_kp >= files[""][1]

\* C13 (as amended): pick_label fails whenever an argument that reaches a
\* partitioning call is out of range: train_size or valid_size outside (0, 1)
\* in generate mode, psize <= 0, vsize >= 1, or a fold index that is no fold.
C13_RejectsWhatReachesPartitioning ==
    (last.op = "pick_label" /\ Rejected(last.args)) => ~last.ok

\* a load-mode call whose files are readable has failed on its arguments
C13_Witness ==
    /\ last.op = "pick_label"
    /\ ~last.ok
    /\ last.args.part_gen # 1
    /\ \A sfx \in FilesRead(variant) : Readable(sfx)
    /\ Rejected(last.args)

\* the fractions given to a call, as the class reads them
OutsideUnitInterval(n) == n <= 0 \/ n >= Den

\* C13 (as stated): pick_label fails whenever train_size, valid_size (as given
\* to a generate-mode call), psize or vsize lies outside (0, 1), or part_kp
\* outside [0, part_kn).
C13_RejectsOutsideUnitInterval ==
    (/\ last.op = "pick_label"
     /\ \/ (/\ last.args.part_gen = 1
                              /\ \/ variant # "CV" /\ OutsideUnitInterval(last.args.train_size)
                                 \/ variant = "TVT" /\ OutsideUnitInterval(last.args.valid_size))
        \/ variant # "CV" /\ OutsideUnitInterval(last.args.psize)
        \/ variant = "CV" /\ OutsideUnitInterval(last.args.vsize)
        \/ variant = "CV" /\ last.args.part_gen = 1 /\ last.args.part_kp >= last.args.part_kn)
    => ~last.ok

\* ===================================== runs of the script (SpecDriver)
\* the instance holds the partition set of the files
PersistedHeld ==
    IF variant = "CV" THEN kpartitions = pickle_load_lists(files[""])
    ELSE /\ test_part = pickle_load_list(files["_test"])
         /\ Range(train_part) \subseteq Range(pickle_load_list(files["_train"]))
         /\ variant = "TVT" => validation_part = pickle_load_list(files["_validation"])

\* C14: a partition file is created or changed only by the pick_label call of
\* a run in generate mode, never by a load-mode pick_label, a batch getter, an
\* iterator or a prediction writer; a run in generate mode ends with that
\* call, before any batch is drawn; and every run that goes on past
\* pick_label holds the partition set of the files.
C14_FilesWrittenByGenerateRunsOnly ==
    [][/\ files' # files =>
            (pc = "constructed" /\ last'.op = "pick_label" /\ last'.args.part_gen = 1)
       /\ (pc = "constructed" /\ last'.op = "pick_label" /\ last'.args.part_gen = 1) =>
            pc' \in {"exited", "failed"}
       /\ pc = "exited" => (pc' = "constructed" /\ files' = files)
       /\ pc' = "running" => PersistedHeld']_vars

\* a run in load mode, after a run that generated the files, has drawn a batch
C14_Witness ==
    /\ pc = "running"
    /\ FilesRead(variant) \subseteq DOMAIN files
    /\ last.op \in SequentialGetters
    /\ last.ret # << >>

\* =================================================== prediction tables (Spec)
\* C15: write_preds, given the predictions of one full test_iterator pass in
\* the order of its batches, writes one row per index of test_part, in
\* ascending order of the sample index, and in every row the prediction is
\* the one made for the sample of that row.
C15_RowsPairedWithOwnPrediction ==
    last.op = "write_preds" =>
        /\ Len(last.ret) = Len(test_part)
        /\ SameElements(last.ret, test_part)
        /\ \A k \in 1 .. Len(last.ret) - 1 : last.ret[k] < last.ret[k + 1]
        /\ Len(last.preds) = Len(last.ret)
        /\ \A k \in 1 .. Len(last.ret) : last.preds[k] = last.ret[k]

\* a table was written in which a row carries the prediction of another sample
C15_Witness ==
    /\ last.op = "write_preds"
    /\ picked
    /\ Len(last.preds) = Len(last.ret)
    /\ SameElements(last.preds, last.ret)
    /\ \E k \in 1 .. Len(last.ret) : last.preds[k] # last.ret[k]

\* ======================================================== label rows (Spec)
WholeGetters == {"get_train_data", "get_validation_data", "get_test_data"}

\* the indices the getter recorded last handed to get_data_part, in the
\* order it handed them over (a balanced getter: known up to their order)
Requested ==
    IF last.op \in SequentialGetters
    THEN SliceAt(PartOf(last.op), last.at, last.batch_size)
    ELSE IF last.op = "get_train_data" THEN train_part
    ELSE IF last.op = "get_validation_data" THEN validation_part
    ELSE IF last.op = "get_test_data" THEN test_part
    ELSE last.ret

\* the label values of the population and the k-th of them in ascending order
LabelValues == {labels[i] : i \in Ids}
KthLabel(k) == CHOOSE v \in LabelValues : Cardinality({w \in LabelValues : w < v}) = k - 1

\* C16: the label matrix get_data_part returns has one row per requested
\* index and one column per distinct label value of the population, columns
\* in ascending label order; each row has exactly one 1, in the column of the
\* label of its sample, and 0 elsewhere; the samples returned are the
\* requested ones, whatever their order in the request.
C16_OneHotRows ==
    (last.op \in SequentialGetters \cup BalancedGetters \cup WholeGetters /\ last.ok) =>
        /\ Len(last.l) = Len(Requested)
        /\ SameElements(last.ret, Requested)
        /\ \A i \in 1 .. Len(last.l) :
              /\ Len(last.l[i]) = Cardinality(LabelValues)
              /\ Cardinality({k \in 1 .. Len(last.l[i]) : last.l[i][k] = 1}) = 1
              /\ \A k \in 1 .. Len(last.l[i]) :
                    last.l[i][k] = IF labels[last.ret[i]] = KthLabel(k) THEN 1 ELSE 0

\* a getter handed get_data_part indices out of ascending order, of samples
\* of two classes
C16_Witness ==
    /\ last.op \in SequentialGetters \cup WholeGetters
    /\ last.ok
    /\ Len(Requested) >= 2
    /\ Requested # last.ret
    /\ \E i, j \in 1 .. Len(last.ret) : labels[last.ret[i]] # labels[last.ret[j]]

\* ========================================================== cursors (Spec)
\* C17: on an instance of Dataset, Dataset_CrossValidation or Dataset_TVT a
\* sequential getter leaves the cursors of the two other partitions
\* unchanged, and the balanced getters, the iterators, the whole-partition
\* getters and write_preds leave all three cursors unchanged.
C17_CursorFrame ==
    [][(variant = "CV" \/ variant = "TVT") =>
          /\ last'.op = "get_train_batch" =>
                (batch_ind_valid' = batch_ind_valid /\ batch_ind_test' = batch_ind_test)
          /\ last'.op = "get_validation_batch" =>
                (batch_ind' = batch_ind /\ batch_ind_test' = batch_ind_test)
          /\ last'.op = "get_test_batch" =>
                (batch_ind' = batch_ind /\ batch_ind_valid' = batch_ind_valid)
          /\ last'.op \in BalancedGetters \cup Iterators \cup WholeGetters \cup {"write_preds"} =>
                (batch_ind' = batch_ind /\ batch_ind_valid' = batch_ind_valid
                 /\ batch_ind_test' = batch_ind_test)]_vars

\* with the training cursor inside its partition, another getter has
\* returned a batch
C17_Witness ==
    /\ variant \in {"CV", "TVT"}
    /\ batch_ind > 0
    /\ last.op \in {"get_validation_batch", "get_test_batch"}
    /\ last.ok
    /\ last.ret # << >>

\* ================================================ sequential batches (Spec)
\* the size of the batch a request for batch_size rows gets at cursor at
BatchLen(part, at, batch_size) == Min2(batch_size, Len(part) - at)

\* C18: a sequential getter that has returned a batch of a non-empty
\* partition leaves the cursor of that partition in 0 .. |partition| - 1;
\* called with the cursor inside the partition it has returned the rows of the
\* min(batch_size, |partition| - cursor) entries of the partition from the
\* cursor on, and the cursor is then the end of that slice, or 0 at the end of
\* the partition; and whatever the batch sizes of the calls, the rows returned
\* since the cursor was last 0 are the entries of the partition up to the
\* cursor, each of them once.
C18_ContiguousBatches ==
    /\ (last.op \in SequentialGetters /\ last.ok /\ PartOf(last.op) # << >>) =>
          /\ 0 <= CursorOf(last.op)
          /\ CursorOf(last.op) < Len(PartOf(last.op))
          /\ last.at < Len(PartOf(last.op)) =>
                /\ last.ret = Sorted(SubSeq(PartOf(last.op), last.at + 1,
                        last.at + BatchLen(PartOf(last.op), last.at, last.batch_size)))
                /\ Len(last.ret) = BatchLen(PartOf(last.op), last.at, last.batch_size)
                /\ CursorOf(last.op) = (last.at + Len(last.ret)) % Len(PartOf(last.op))
    /\ (sweep.getter \in SequentialGetters /\ PartOf(sweep.getter) # << >>) =>
          sweep.rows = Sorted(SubSeq(PartOf(sweep.getter), 1,
                                     IF CursorOf(sweep.getter) = 0
                                     THEN Len(PartOf(sweep.getter))
                                     ELSE CursorOf(sweep.getter)))

\* a partition of three rows has been gone through by a batch of one row and
\* then a batch of two, which has put the cursor back to 0
C18_Witness ==
    /\ sweep.getter \in SequentialGetters
    /\ last.op = sweep.getter
    /\ last.ok
    /\ Len(PartOf(last.op)) = 3
    /\ last.at = 1
    /\ last.batch_size = 2
    /\ Len(sweep.rows) = 3
    /\ CursorOf(last.op) = 0

\* ================================================ checkpoints (SpecTraining)
RECURSIVE Sum(_)
Sum(s) == IF s = << >> THEN 0 ELSE Head(s) + Sum(Tail(s))

\* mae_error_list[-5:]
LastFive(l) == SubSeq(l, (IF Len(l) > 5 THEN Len(l) - 4 ELSE 1), Len(l))

\* C19: at the end of an epoch the checkpoint has been written exactly when
\* the average of the last 5 recorded validation MAE values was lower than
\* the recorded minimum, the recorded minimum is then that average, and the
\* recorded minimum has not increased. (The average a of the values w is
\* compared as Sum(w) with a * Len(w).)
C19_CheckpointOnAverageOfLastFive ==
    (pc = "training" /\ epoch > 0) =>
        /\ checkpoint.written <=>
              Sum(LastFive(mae_error_list)) < checkpoint.before * Len(LastFive(mae_error_list))
        /\ checkpoint.written =>
              loss_min * Len(LastFive(mae_error_list)) = Sum(LastFive(mae_error_list))
        /\ loss_min <= checkpoint.before

\* an epoch has ended with a validation MAE below the recorded minimum while
\* the average of the recorded values was not below it
C19_Witness ==
    /\ pc = "training"
    /\ epoch > 0
    /\ checkpoint.written
    /\ mae_error_list[Len(mae_error_list)] < checkpoint.before
    /\ Sum(LastFive(mae_error_list)) >= checkpoint.before * Len(LastFive(mae_error_list))

\* ========================================= failed calls (SpecFailure)
\* the call recorded in l failed on a partition file: a file it could not
\* read in load mode, or a write that failed in generate mode
FileFailure(l) ==
    /\ l.op = "pick_label"
    /\ ~l.ok
    /\ \/ l.raised \in {"read", "write"}
       \/ l.raised = "source" /\ l.args.part_gen # 1

\* C20: a pick_label call that fails on a partition file leaves train_part,
\* validation_part, test_part and the three cursors as they were before it.
C20_FailedPickLeavesPartitions ==
    [][FileFailure(last') => (parts' = parts /\ cursors' = cursors)]_vars

\* on an instance where no pick_label call has completed, a call that failed
\* on a partition file has left a test partition
C20_Witness ==
    /\ ~picked
    /\ FileFailure(last)
    /\ test_part # << >>

\* ================================================ balanced batches (Spec)
\* the samples of class l in a sequence of indices
OfClass(rows, l) == {rows[j] : j \in {i \in DOMAIN rows : labels[rows[i]] = l}}

\* the partition the claim names for a balanced getter
NamedPartOf(getter) ==
    IF getter = "get_balanced_train_batch" THEN train_part ELSE validation_part

\* C21 (as amended): the indices a balanced getter selects are members of
\* the partition it draws from (train_part also for
\* get_balanced_validation_batch of Dataset_TT and Dataset_TT_byclass), each
\* at most once; of a class with fewer than batch_size // num_classes samples
\* in that partition, none included, they are all the samples the partition
\* has; they are at most batch_size; and when at least one index is selected
\* the getter returns.
C21_BalancedWithinPartition ==
    last.op \in BalancedGetters =>
        /\ Range(last.ret) \subseteq Range(BalancedPartOf(last.op))
        /\ \A i, j \in DOMAIN last.ret : last.ret[i] = last.ret[j] => i = j
        /\ \A k \in 1 .. num_labels :
              CountOfClass(BalancedPartOf(last.op), label_types[k]) <
                    last.batch_size \div num_labels
                => OfClass(last.ret, label_types[k]) =
                       OfClass(BalancedPartOf(last.op), label_types[k])
        /\ Len(last.ret) <= last.batch_size
        /\ last.ret # << >> => last.ok

\* a balanced getter has returned a batch from a partition that has no sample
\* of one class and fewer than its share of another
C21_Witness ==
    /\ last.op \in BalancedGetters
    /\ last.ok
    /\ last.ret # << >>
    /\ Len(last.ret) < last.batch_size
    /\ \E k \in 1 .. num_labels :
          CountOfClass(BalancedPartOf(last.op), label_types[k]) = 0
    /\ \E k \in 1 .. num_labels :
          /\ OfClass(last.ret, label_types[k]) # {}
          /\ CountOfClass(BalancedPartOf(last.op), label_types[k]) <
                 last.batch_size \div num_labels

\* C21 (as stated): the members of train_part for get_balanced_train_batch
\* and of validation_part for get_balanced_validation_batch, and a return
\* whenever a class has fewer than its share, the batch empty or not.
C21_BalancedWithinNamedPartition ==
    last.op \in BalancedGetters =>
        /\ Range(last.ret) \subseteq Range(NamedPartOf(last.op))
        /\ \A i, j \in DOMAIN last.ret : last.ret[i] = last.ret[j] => i = j
        /\ \A k \in 1 .. num_labels :
              CountOfClass(NamedPartOf(last.op), label_types[k]) <
                    last.batch_size \div num_labels
                => /\ OfClass(last.ret, label_types[k]) =
                          OfClass(NamedPartOf(last.op), label_types[k])
                   /\ last.ok
        /\ Len(last.ret) <= last.batch_size
====
